---- MODULE Spec2Model ----
(***************************************************************************)
(* Model of the contract analyser (src/app.py): the "Analyze Contract"     *)
(* button handler, the three text extractors and get_gemini_response.      *)
(*                                                                         *)
(* Texts (str values that the code scans or builds) are sequences of       *)
(* units.  A unit is a piece of text: a single character ("\n", "{", ":",  *)
(* a backtick, ...), a word of prose, or one whole JSON token (a quoted    *)
(* string literal, null, true, false).  The Python string a text stands    *)
(* for is the concatenation of its units.  A newline is always a unit of   *)
(* its own.  Characters outside ASCII are written as Python writes their   *)
(* escapes (a backslash, u or U and the code point in hexadecimal).        *)
(*                                                                         *)
(* Python values are records [t, s, kids]: t is the Python type name, s    *)
(* the payload of a str / int / bool, kids the members of a dict (in       *)
(* insertion order, as records [k, v]) or the items of a list (k = "").    *)
(***************************************************************************)
EXTENDS Integers, Sequences, FiniteSets, TLC

(***************************************************************************)
(* Bounds of the model.                                                    *)
(***************************************************************************)
MaxPages == 2
MaxInteractions == 2

(***************************************************************************)
(* Python values.                                                          *)
(***************************************************************************)
V(t, s, kids) == [t |-> t, s |-> s, kids |-> kids]
PyNone == V("NoneType", "", <<>>)
PyStr(s) == V("str", s, <<>>)
PyInt(s) == V("int", s, <<>>)
PyTrue == V("bool", "True", <<>>)
PyFalse == V("bool", "False", <<>>)
KV(k, v) == [k |-> k, v |-> v]
PyList(items) == V("list", "", [i \in 1..Len(items) |-> KV("", items[i])])
PyDict(pairs) == V("dict", "", pairs)
EmptyDict == PyDict(<<>>)
Unbound == V("unbound", "", <<>>)

\* bool(v): the truth value Python gives a value in an if statement.
Truthy(v) ==
    CASE v.t = "NoneType" -> FALSE
      [] v.t = "bool" -> v.s = "True"
      [] v.t = "int" -> v.s # "0"
      [] v.t = "str" -> v.s # ""
      [] OTHER -> v.kids # <<>>

HasKey(d, key) == \E i \in 1..Len(d.kids) : d.kids[i].k = key
Lookup(d, key) == d.kids[CHOOSE i \in 1..Len(d.kids) : d.kids[i].k = key].v
\* d[key] = val on a dict's members: an existing key keeps its place.
DictSet(pairs, key, val) ==
    IF \E i \in 1..Len(pairs) : pairs[i].k = key
    THEN [i \in 1..Len(pairs) |->
             IF pairs[i].k = key THEN KV(key, val) ELSE pairs[i]]
    ELSE Append(pairs, KV(key, val))

\* str(v) as an f-string formats it; repr(v) for what a container shows.
RECURSIVE PyRepr(_), ReprItems(_, _)
PyRepr(v) ==
    CASE v.t = "str" -> "'" \o v.s \o "'"
      [] v.t = "NoneType" -> "None"
      [] v.t = "list" -> "[" \o ReprItems(v.kids, FALSE) \o "]"
      [] v.t = "dict" -> "{" \o ReprItems(v.kids, TRUE) \o "}"
      [] OTHER -> v.s
ReprItems(kids, keyed) ==
    IF kids = <<>> THEN ""
    ELSE (IF keyed THEN "'" \o Head(kids).k \o "': " ELSE "")
         \o PyRepr(Head(kids).v)
         \o (IF Len(kids) > 1 THEN ", " ELSE "")
         \o ReprItems(Tail(kids), keyed)
Format(v) == IF v.t = "str" THEN v.s ELSE PyRepr(v)

(***************************************************************************)
(* The prompt's schema (the keys the handler reads back).                  *)
(***************************************************************************)
box_colors ==
    << <<"Contract Type", "box-red">>, <<"Address", "box-green">>,
       <<"Entry Date", "box-blue">>, <<"Contract Party", "box-purple">>,
       <<"Termination Date", "box-orange">>, <<"End of Contract", "box-pink">> >>
InsightKeys ==
    << "Executive Summary", "Scope of Service",
       "Responsibilities for Deliverables", "Payment Schedule",
       "Tax Compliance", "Important Dates and Deadlines",
       "Termination Clauses", "Confidentiality and Non-Compete Clause" >>
\* <<schema key, checkbox label>>
CommercialBoxes ==
    << <<"Payment Terms", "Payment Terms">>,
       <<"IP", "IP (Intellectual Property)">>,
       <<"Delivery Time", "Delivery Time">>, <<"Warranty", "Warranty">> >>
LegalBoxes ==
    << <<"Indemnification", "Indemnification">>,
       <<"Termination", "Termination">>,
       <<"Confidentiality", "Confidentiality">>,
       <<"Limitation of Liability", "Limitation of Liability">> >>
Range(f) == {f[i] : i \in DOMAIN f}
HeadlineKeys == [i \in 1..Len(box_colors) |-> box_colors[i][1]]
TextKeys == Range(HeadlineKeys) \cup Range(InsightKeys)
CommercialKeys == {CommercialBoxes[i][1] : i \in 1..Len(CommercialBoxes)}
LegalKeys == {LegalBoxes[i][1] : i \in 1..Len(LegalBoxes)}

(***************************************************************************)
(* JSON text: json.dumps and json.loads over units.                        *)
(***************************************************************************)
\* The contents of the JSON string literals that occur in the modelled texts.
StrContents ==
    TextKeys \cup CommercialKeys \cup LegalKeys
    \cup {"Clauses Presence", "Commercial", "Legal",
          "Yes", "No", "yes", "NDA", "foo", ""}
Quote(s) == "\"" \o s \o "\""
StrLits == {Quote(s) : s \in StrContents}
Unquote(u) == CHOOSE s \in StrContents : Quote(s) = u
Digits == {"0", "1"}
Whitespace == {" ", "\n"}

\* json.dumps(v) with the default separators.
RECURSIVE Dumps(_), DumpsItems(_, _)
Dumps(v) ==
    CASE v.t = "str" -> <<Quote(v.s)>>
      [] v.t = "NoneType" -> <<"null">>
      [] v.t = "bool" -> <<IF v.s = "True" THEN "true" ELSE "false">>
      [] v.t = "int" -> <<v.s>>
      [] v.t = "list" -> <<"[">> \o DumpsItems(v.kids, FALSE) \o <<"]">>
      [] v.t = "dict" -> <<"{">> \o DumpsItems(v.kids, TRUE) \o <<"}">>
DumpsItems(kids, keyed) ==
    IF kids = <<>> THEN <<>>
    ELSE (IF keyed THEN <<Quote(Head(kids).k), ":", " ">> ELSE <<>>)
         \o Dumps(Head(kids).v)
         \o (IF Len(kids) > 1 THEN <<",", " ">> ELSE <<>>)
         \o DumpsItems(Tail(kids), keyed)

\* json.loads(txt): ok, or the JSONDecodeError it raises (msg, and pos, the
\* unit at which the scanner stopped).
Fail(msg, i) == [ok |-> FALSE, val |-> PyNone, pos |-> i, msg |-> msg]
Good(v, p) == [ok |-> TRUE, val |-> v, pos |-> p, msg |-> ""]
At(txt, i) == IF i \in 1..Len(txt) THEN txt[i] ELSE "<eof>"
RECURSIVE SkipWs(_, _)
SkipWs(txt, i) ==
    IF At(txt, i) \in Whitespace THEN SkipWs(txt, i + 1) ELSE i
RECURSIVE ScanDigits(_, _, _)
ScanDigits(txt, i, acc) ==
    IF At(txt, i) \in Digits
    THEN ScanDigits(txt, i + 1, acc \o At(txt, i))
    ELSE Good(PyInt(acc), i)
RECURSIVE ParseValue(_, _), ParseMembers(_, _, _), ParseItems(_, _, _)
\* scan_once: the value that starts at unit i.
ParseValue(txt, i) ==
    LET u == At(txt, i) IN
    CASE u = "{" ->
            LET j == SkipWs(txt, i + 1) IN
            IF At(txt, j) = "}" THEN Good(EmptyDict, j + 1)
            ELSE ParseMembers(txt, j, <<>>)
      [] u = "[" ->
            LET j == SkipWs(txt, i + 1) IN
            IF At(txt, j) = "]" THEN Good(PyList(<<>>), j + 1)
            ELSE ParseItems(txt, j, <<>>)
      [] u \in StrLits -> Good(PyStr(Unquote(u)), i + 1)
      [] u = "null" -> Good(PyNone, i + 1)
      [] u = "true" -> Good(PyTrue, i + 1)
      [] u = "false" -> Good(PyFalse, i + 1)
      [] u = "0" -> Good(PyInt("0"), i + 1)
      [] u = "1" -> ScanDigits(txt, i + 1, "1")
      [] OTHER -> Fail("Expecting value", i)
\* JSONObject: a "key": value pair is expected at unit i.
ParseMembers(txt, i, acc) ==
    IF At(txt, i) \notin StrLits
    THEN Fail("Expecting property name enclosed in double quotes", i)
    ELSE LET c == SkipWs(txt, i + 1) IN
         IF At(txt, c) # ":" THEN Fail("Expecting ':' delimiter", c)
         ELSE LET r == ParseValue(txt, SkipWs(txt, c + 1)) IN
              IF ~r.ok THEN r
              ELSE LET acc2 == DictSet(acc, Unquote(At(txt, i)), r.val)
                       e == SkipWs(txt, r.pos)
                   IN  CASE At(txt, e) = "}" -> Good(PyDict(acc2), e + 1)
                         [] At(txt, e) = "," ->
                                ParseMembers(txt, SkipWs(txt, e + 1), acc2)
                         [] OTHER -> Fail("Expecting ',' delimiter", e)
\* JSONArray: an item is expected at unit i.
ParseItems(txt, i, acc) ==
    LET r == ParseValue(txt, i) IN
    IF ~r.ok THEN r
    ELSE LET acc2 == Append(acc, r.val)
             e == SkipWs(txt, r.pos)
         IN  CASE At(txt, e) = "]" -> Good(PyList(acc2), e + 1)
               [] At(txt, e) = "," -> ParseItems(txt, SkipWs(txt, e + 1), acc2)
               [] OTHER -> Fail("Expecting ',' delimiter", e)
\* JSONDecoder.decode: one value, then nothing but whitespace.
Loads(txt) ==
    LET r == ParseValue(txt, SkipWs(txt, 1)) IN
    CASE ~r.ok -> r
      [] SkipWs(txt, r.pos) # Len(txt) + 1 ->
            Fail("Extra data", SkipWs(txt, r.pos))
      [] OTHER -> r

\* str(JSONDecodeError(msg, doc, pos)): the message with the line, the column
\* and the character offset of unit i of doc.
UnitLen(u) == IF u = "<backtick>" THEN 1 ELSE Len(u)
\* The number of characters in units a..b of doc.
RECURSIVE CharsIn(_, _, _)
CharsIn(doc, a, b) ==
    CASE a > b -> 0
      [] a = b -> UnitLen(doc[a])
      [] OTHER -> LET m == (a + b) \div 2
                  IN  CharsIn(doc, a, m) + CharsIn(doc, m + 1, b)
CharPos(doc, i) == CharsIn(doc, 1, i - 1)
NewlinesBefore(doc, i) == {k \in 1..(i - 1) : doc[k] = "\n"}
LineNo(doc, i) == Cardinality(NewlinesBefore(doc, i)) + 1
ColNo(doc, i) ==
    IF NewlinesBefore(doc, i) = {} THEN CharPos(doc, i) + 1
    ELSE LET last == CHOOSE k \in NewlinesBefore(doc, i) :
                        \A n \in NewlinesBefore(doc, i) : n <= k
         IN  CharPos(doc, i) - CharPos(doc, last)
JSONDecodeError(msg, doc, i) ==
    msg \o ": line " \o ToString(LineNo(doc, i))
        \o " column " \o ToString(ColNo(doc, i))
        \o " (char " \o ToString(CharPos(doc, i)) \o ")"

(***************************************************************************)
(* re.search with re.DOTALL for: the opening fence with its json tag and   *)
(* newline, a greedy group of any characters, a newline and a closing      *)
(* fence.                                                                  *)
(***************************************************************************)
\* The unit that stands for one backtick character (U+0060).
Backtick == "<backtick>"
Opener == <<Backtick, Backtick, Backtick, "json", "\n">>
Closer == <<"\n", Backtick, Backtick, Backtick>>
LitAt(txt, i, lit) ==
    /\ i >= 1
    /\ i + Len(lit) - 1 <= Len(txt)
    /\ \A k \in 1..Len(lit) : txt[i + k - 1] = lit[k]
SetMin(S) == CHOOSE m \in S : \A n \in S : m <= n
SetMax(S) == CHOOSE m \in S : \A n \in S : m >= n
\* Where the closing literal can start once the opener at i is consumed.
ClosersAfter(txt, i) ==
    {j \in (i + Len(Opener))..Len(txt) : LitAt(txt, j, Closer)}
MatchStarts(txt) ==
    {i \in 1..Len(txt) : LitAt(txt, i, Opener) /\ ClosersAfter(txt, i) # {}}
\* The leftmost match; the greedy group runs to the last closing literal.
json_match(txt) ==
    IF MatchStarts(txt) = {} THEN [matched |-> FALSE, group1 |-> <<>>]
    ELSE LET i == SetMin(MatchStarts(txt))
             j == SetMax(ClosersAfter(txt, i))
         IN  [matched |-> TRUE,
              group1 |-> SubSeq(txt, i + Len(Opener), j - 1)]
\* Variant: the two branches exchanged.
json_strSwapped(txt) ==
    IF ~json_match(txt).matched THEN json_match(txt).group1 ELSE txt
\* group(1) if the pattern matched, else the whole text.
json_str(txt) ==
    IF json_match(txt).matched THEN json_match(txt).group1 ELSE txt

(***************************************************************************)
(* Exceptions, and the two handlers that catch them.                       *)
(***************************************************************************)
NoExc == ""
ApiErrors == {"ResourceExhausted: 429 quota exceeded",
              "ValueError: response.text requires a valid Part"}
PdfReadError == "EOF marker not found"
BadZipFile == "File is not a zip file"
\* bytes.decode("utf-8").  The bytes are units too: a piece of ASCII text, or
\* one byte written 0x.. (0xe2 opens a character of three bytes, 0x80 and
\* 0x82 can only continue one, 0xfe and 0xff are never valid).
ByteUnits == {"0x80", "0x82", "0xe2", "0xfe", "0xff"}
Continuation == {"0x80", "0x82"}
\* A whole three-byte character starts at unit i.
IsChar3(bytes, i) ==
    /\ bytes[i] = "0xe2"
    /\ i + 2 <= Len(bytes)
    /\ bytes[i + 1] \in Continuation
    /\ bytes[i + 2] \in Continuation
\* The character of 0xe2 b2 b3, code point 0x2000 + 64 * (b2 - 0x80) + (b3 - 0x80).
Char3(b2, b3) ==
    "\\u20" \o (IF b2 = "0x80" THEN "0" ELSE "8")
            \o (IF b3 = "0x80" THEN "0" ELSE "2")
\* The first unit from i on at which no character starts (UnicodeDecodeError's
\* start), Len(bytes) + 1 if the bytes are valid.
RECURSIVE FirstBadByte(_, _)
FirstBadByte(bytes, i) ==
    CASE i > Len(bytes) -> i
      [] bytes[i] \notin ByteUnits -> FirstBadByte(bytes, i + 1)
      [] IsChar3(bytes, i) -> FirstBadByte(bytes, i + 3)
      [] OTHER -> i
\* The text of valid bytes.
RECURSIVE Decoded(_, _)
Decoded(bytes, i) ==
    CASE i > Len(bytes) -> <<>>
      [] bytes[i] \notin ByteUnits -> <<bytes[i]>> \o Decoded(bytes, i + 1)
      [] OTHER -> <<Char3(bytes[i + 1], bytes[i + 2])>> \o Decoded(bytes, i + 3)
BytePos(bytes, i) == CharPos([k \in 1..Len(bytes) |->
                                 IF bytes[k] \in ByteUnits THEN "." ELSE bytes[k]], i)
\* str(UnicodeDecodeError) for bytes that are not valid.
UnicodeDecodeError(bytes) ==
    LET i == FirstBadByte(bytes, 1)
        p == BytePos(bytes, i)
        one(why) == "'utf-8' codec can't decode byte " \o bytes[i]
                    \o " in position " \o ToString(p) \o ": " \o why
        two(why) == "'utf-8' codec can't decode bytes in position "
                    \o ToString(p) \o "-" \o ToString(p + 1) \o ": " \o why
    IN  CASE bytes[i] # "0xe2" -> one("invalid start byte")
          [] i = Len(bytes) -> one("unexpected end of data")
          [] bytes[i + 1] \notin Continuation -> one("invalid continuation byte")
          [] i + 1 = Len(bytes) -> two("unexpected end of data")
          [] OTHER -> two("invalid continuation byte")
AttributeError(v) == "'" \o v.t \o "' object has no attribute 'get'"
\* Variant: a clause that names the API's exception types only.
GeminiCatchesApiOnly(exc) == exc \in ApiErrors
\* The except Exception clause of get_gemini_response.
GeminiCatches(exc) == TRUE

(***************************************************************************)
(* What the page shows: one record per Streamlit call.  key names the      *)
(* schema key an element displays ("" for the others).                     *)
(***************************************************************************)
E(kind, key, text) == [kind |-> kind, key |-> key, text |-> text, checked |-> FALSE]
Checkbox(key, label, value) ==
    [kind |-> "checkbox", key |-> key, text |-> label, checked |-> value]
\* Drawn by every run of the script, above the uploader and the button.
PageHead ==
    << E("title", "", "Contract Analyzer"),
       E("markdown", "", "### Powered by Gemini Pro API") >>
SizeErrorText == "File size exceeds the 200 MB limit. Please upload a smaller file."
NoTextErrorText == "Could not extract any text from the uploaded file. Please ensure the file is not corrupted."
NotAnalyzedErrorText == "Could not analyze the contract. Please check the contract text and your API key."
NoFileWarningText == "Please upload a contract file to analyze."
GeminiError(exc) == <<E("error", "", "An error occurred: " \o exc)>>
ProcessingError(exc) ==
    E("error", "", "An error occurred during file processing: " \o exc)
BoxLabel(key, color_class) ==
    E("markdown", key,
      "<div class=\"custom-box " \o color_class \o "\"><b>" \o key \o "</b></div>")
BoxValue(key, color_class, value) ==
    E("markdown", key,
      "<div class=\"custom-box " \o color_class \o "\">" \o Format(value) \o "</div>")
Insight(key, value) == E("info", key, "**" \o key \o ":** " \o Format(value))

(***************************************************************************)
(* Uploaded files.  content says what the bytes are: a PDF with the pages  *)
(* in parts (none: extract_text() gives None), a DOCX with the paragraphs  *)
(* in parts, UTF-8 text (one part, its bytes), or bytes that are none of  *)
(* these (one part, the bytes).                                            *)
(***************************************************************************)
SizeLimit == 200 * 1024 * 1024
PdfType == "application/pdf"
DocxType == "application/vnd.openxmlformats-officedocument.wordprocessingml.document"
TxtType == "text/plain"
Part(none, text) == [none |-> none, text |-> text]
Content(fmt, parts) == [fmt |-> fmt, parts |-> parts]
NotRead == Content("<not read>", <<>>)
NoFile == [size |-> 0, type |-> "<None>", content |-> Content("<None>", <<>>)]

\* page.extract_text() or ""
PageText(page) == IF page.none \/ page.text = <<>> THEN <<>> ELSE page.text
\* Variant: each page text put in front of the text so far.
RECURSIVE PdfPagesReversed(_, _)
PdfPagesReversed(pages, text) ==
    IF pages = <<>> THEN text
    ELSE PdfPagesReversed(Tail(pages), PageText(Head(pages)) \o text)
\* for page in reader.pages: text += page.extract_text() or ""
RECURSIVE PdfPages(_, _)
PdfPages(pages, text) ==
    IF pages = <<>> THEN text
    ELSE PdfPages(Tail(pages), text \o PageText(Head(pages)))
\* for paragraph in doc.paragraphs: text += paragraph.text + "\n"
RECURSIVE DocxParagraphs(_, _)
DocxParagraphs(paragraphs, text) ==
    IF paragraphs = <<>> THEN text
    ELSE DocxParagraphs(Tail(paragraphs),
                        text \o Head(paragraphs).text \o <<"\n">>)
Returned(text) == [exc |-> NoExc, text |-> text]
Raised(exc) == [exc |-> exc, text |-> <<>>]
extract_text_from_pdf(bytes) ==
    IF bytes.fmt # "pdf" THEN Raised(PdfReadError)
    ELSE Returned(PdfPages(bytes.parts, <<>>))
extract_text_from_docx(bytes) ==
    IF bytes.fmt # "docx" THEN Raised(BadZipFile)
    ELSE Returned(DocxParagraphs(bytes.parts, <<>>))
decode_utf8(bytes) ==
    LET b == bytes.parts[1].text IN
    CASE bytes.fmt \in {"txt", "bytes"} ->
            IF FirstBadByte(b, 1) > Len(b) THEN Returned(Decoded(b, 1))
            ELSE Raised(UnicodeDecodeError(b))
ExtractInfo(type) ==
    CASE type = PdfType -> <<E("info", "", "Extracting text from PDF...")>>
      [] type = DocxType -> <<E("info", "", "Extracting text from DOCX...")>>
      [] type = TxtType -> <<E("info", "", "Reading text from TXT...")>>
      [] OTHER -> <<>>
\* The if / elif chain on uploaded_file.type; contract_text stays "" otherwise.
Extract(type, bytes) ==
    CASE type = PdfType -> extract_text_from_pdf(bytes)
      [] type = DocxType -> extract_text_from_docx(bytes)
      [] type = TxtType -> decode_utf8(bytes)
      [] OTHER -> Returned(<<>>)
\* if contract_text; variant: the test left out.
NonEmptyAlways(text) == TRUE
NonEmpty(text) == text # <<>>
\* The size check; variant: written with >=.
SizeTooBigInclusive(size) == size >= SizeLimit
SizeTooBig(size) == size > SizeLimit
\* uploaded_file is not None; variant: the test left out.
HasFileAlways(file) == TRUE
HasFile(file) == file # NoFile

(***************************************************************************)
(* The result page (the body of "if analysis_data:").                      *)
(***************************************************************************)
\* v.get(key, default); only a dict has the method.
IsDict(v) == v.t = "dict"
Get(d, key, default) == IF HasKey(d, key) THEN Lookup(d, key) ELSE default
IsYes(value) == value = PyStr("Yes")
\* The custom CSS for the coloured boxes.
BoxStyle ==
    "\n"
    \o "                            <style>\n"
    \o "                            .custom-box {\n"
    \o "                                border-radius: 5px;\n"
    \o "                                padding: 10px;\n"
    \o "                                margin-bottom: 10px;\n"
    \o "                                border: 1px solid #ddd;\n"
    \o "                            }\n"
    \o "                            .box-red { background-color: #ffe5e5; }\n"
    \o "                            .box-green { background-color: #e5ffe5; }\n"
    \o "                            .box-blue { background-color: #e5e5ff; }\n"
    \o "                            .box-purple { background-color: #f2e5ff; }\n"
    \o "                            .box-orange { background-color: #fff2e5; }\n"
    \o "                            .box-pink { background-color: #ffe5f2; }\n"
    \o "                            .box-yellow { background-color: #ffffcc; }\n"
    \o "                            </style>\n"
    \o "                            "
RenderHead ==
    << E("success", "", "Analysis Complete! \\U0001f389"),
       E("markdown", "", BoxStyle),
       E("header", "", "Key Contract Details") >>
RenderBoxes(data) ==
    LET pair(i) ==
            << BoxLabel(box_colors[i][1], box_colors[i][2]),
               BoxValue(box_colors[i][1], box_colors[i][2],
                        Get(data, box_colors[i][1], PyStr("N/A"))) >>
    IN  pair(1) \o pair(2) \o pair(3) \o pair(4) \o pair(5) \o pair(6)
RenderInsights(data) ==
    << E("markdown", "", "---"),
       E("header", "", "Full Analysis"),
       E("subheader", "", "General Insights") >>
    \o [i \in 1..Len(InsightKeys) |->
           Insight(InsightKeys[i], Get(data, InsightKeys[i], PyStr("N/A")))]
    \o << E("markdown", "", "---"),
          E("subheader", "", "Clause Presence Check \\u2705") >>
RenderCheckboxes(boxes, group) ==
    [i \in 1..Len(boxes) |->
        Checkbox(boxes[i][1], boxes[i][2],
                 IsYes(Get(group, boxes[i][1], PyStr("No"))))]
\* [events, exc]: what was drawn, and the AttributeError that stopped the
\* drawing when a value that is read with .get() is not a dict.
Render(data) ==
    LET ev0 == RenderHead
        ev1 == ev0 \o RenderBoxes(data) \o RenderInsights(data)
        clauses == Get(data, "Clauses Presence", EmptyDict)
        ev2 == Append(ev1, E("markdown", "", "##### Commercial Clauses"))
        commercial_clauses == Get(clauses, "Commercial", EmptyDict)
        ev3 == ev2 \o RenderCheckboxes(CommercialBoxes, commercial_clauses)
                   \o << E("markdown", "", "---"),
                         E("markdown", "", "##### Legal Clauses") >>
        legal_clauses == Get(clauses, "Legal", EmptyDict)
        ev4 == ev3 \o RenderCheckboxes(LegalBoxes, legal_clauses)
    IN  CASE ~IsDict(data) -> [events |-> ev0, exc |-> AttributeError(data)]
          [] ~IsDict(clauses) -> [events |-> ev2, exc |-> AttributeError(clauses)]
          [] ~IsDict(commercial_clauses) ->
                [events |-> ev2, exc |-> AttributeError(commercial_clauses)]
          [] ~IsDict(legal_clauses) ->
                [events |-> ev3, exc |-> AttributeError(legal_clauses)]
          [] OTHER -> [events |-> ev4, exc |-> NoExc]

\* The f-string of get_gemini_response, before and after {input_text}.
PromptHead ==
    << "\n",
       "    You are an expert contract analyzer. Your task is to analyze the following contract text and extract key insights.",
       "\n",
       "    ",
       "\n",
       "    The output should be a single JSON object with the following structure:",
       "\n",
       "    {",
       "\n",
       "      \"Contract Type\": \"The type of agreement (e.g., Service Agreement, Lease, NDA).\",",
       "\n",
       "      \"Address\": \"The address mentioned in the contract.\",",
       "\n",
       "      \"Entry Date\": \"The date the contract was entered into.\",",
       "\n",
       "      \"Contract Party\": \"The names of the parties involved in the contract.\",",
       "\n",
       "      \"Termination Date\": \"Any date or clause specifying when the contract can be terminated.\",",
       "\n",
       "      \"End of Contract\": \"The specific end date or duration of the contract.\",",
       "\n",
       "      \"Executive Summary\": \"A concise summary of the contract's purpose and key terms.\",",
       "\n",
       "      \"Scope of Service\": \"A description of the services or work to be performed.\",",
       "\n",
       "      \"Responsibilities for Deliverables\": \"A summary of each party's responsibilities and the deliverables they are accountable for.\",",
       "\n",
       "      \"Payment Schedule\": \"Details on how and when payments will be made.\",",
       "\n",
       "      \"Tax Compliance\": \"Any clauses related to tax responsibilities and compliance.\",",
       "\n",
       "      \"Important Dates and Deadlines\": \"A list of all significant dates and deadlines mentioned in the contract.\",",
       "\n",
       "      \"Termination Clauses\": \"Conditions under which the contract can be terminated by either party.\",",
       "\n",
       "      \"Confidentiality and Non-Compete Clause\": \"Details of any confidentiality agreements and non-compete restrictions.\",",
       "\n",
       "      \"Clauses Presence\": {",
       "\n",
       "        \"Commercial\": {",
       "\n",
       "          \"Payment Terms\": \"Yes/No\",",
       "\n",
       "          \"IP\": \"Yes/No\",",
       "\n",
       "          \"Delivery Time\": \"Yes/No\",",
       "\n",
       "          \"Warranty\": \"Yes/No\"",
       "\n",
       "        },",
       "\n",
       "        \"Legal\": {",
       "\n",
       "          \"Indemnification\": \"Yes/No\",",
       "\n",
       "          \"Termination\": \"Yes/No\",",
       "\n",
       "          \"Confidentiality\": \"Yes/No\",",
       "\n",
       "          \"Limitation of Liability\": \"Yes/No\"",
       "\n",
       "        }",
       "\n",
       "      }",
       "\n",
       "    }",
       "\n",
       "    ",
       "\n",
       "    Analyze the following contract text:",
       "\n",
       "    ---",
       "\n",
       "    " >>
PromptTail ==
    << "\n",
       "    ---",
       "\n",
       "    " >>
PromptFor(input_text) == PromptHead \o input_text \o PromptTail

(***************************************************************************)
(* Inputs: the files a user uploads and what the model API answers.        *)
(***************************************************************************)
MaxParagraphs == 2
SeqsUpTo(S, n) == UNION {[1..k -> S] : k \in 0..n}
PageChoices ==
    { Part(TRUE, <<>>), Part(FALSE, <<>>),
      Part(FALSE, <<"Lease">>), Part(FALSE, <<"term", "\n">>) }
ParagraphChoices == { Part(FALSE, <<>>), Part(FALSE, <<"Lease">>) }
PdfContents == {Content("pdf", p) : p \in SeqsUpTo(PageChoices, MaxPages)}
DocxContents ==
    {Content("docx", p) : p \in SeqsUpTo(ParagraphChoices, MaxParagraphs)}
TxtContents ==
    {Content("txt", <<Part(FALSE, t)>>) :
        t \in {<<>>, <<"Lease">>, <<"Lease", "\n", "term">>,
               <<"Lease ", "0xe2", "0x82", "0x80">>}}
GarbageContents ==
    {Content("bytes", <<Part(FALSE, b)>>) :
        b \in { <<"0xff", "0xfe", " not a document">>,
                <<"Lease ", "0x80">>,
                <<"Lease ", "0xe2", "0x82">>,
                <<"0xe2", "0x82", "0x80", "0xff">>,
                <<"Lease ", "0xe2", "0x80", "0x80", "0xe2">> }}
Garbage == Content("bytes", <<Part(FALSE, <<"0xff", "0xfe", " not a document">>)>>)
File(size, type, content) == [size |-> size, type |-> type, content |-> content]
OtherTypes == {"image/png", ""}
Files ==
    {File(SizeLimit, PdfType, c) : c \in PdfContents \cup {Garbage}}
    \cup {File(SizeLimit, DocxType, c) : c \in DocxContents \cup {Garbage}}
    \cup {File(SizeLimit, TxtType, c) : c \in TxtContents \cup GarbageContents}
    \cup {File(n, t, c) :
            n \in {1024, SizeLimit, SizeLimit + 1},
            t \in OtherTypes \cup {TxtType},
            c \in {Content("txt", <<Part(FALSE, <<"Lease">>)>>), Garbage}}
    \cup {File(SizeLimit + 1, PdfType,
               Content("pdf", <<Part(FALSE, <<"Lease">>)>>))}

\* Results the model may describe.
Filled(keys) == [i \in 1..Len(keys) |-> KV(keys[i], PyStr("NDA"))]
SchemaKeys == HeadlineKeys \o InsightKeys
TopChoices ==
    { <<>>,
      Filled(<<"Contract Type">>),
      Filled(<<"Executive Summary">>),
      Filled(Tail(SchemaKeys)),
      Filled(SchemaKeys),
      <<KV("Contract Type", PyNone)>> }
Group(boxes, answer) == PyDict([i \in 1..Len(boxes) |-> KV(boxes[i][1], answer)])
GoodClauses ==
    { EmptyDict,
      PyDict(<<KV("Commercial", EmptyDict)>>),
      PyDict(<<KV("Legal", EmptyDict)>>),
      PyDict(<<KV("Commercial", Group(CommercialBoxes, PyStr("Yes"))),
               KV("Legal", Group(LegalBoxes, PyStr("No")))>>),
      PyDict(<<KV("Commercial", PyDict(<<KV("Payment Terms", PyStr("Yes")),
                                         KV("IP", PyStr("yes"))>>)),
               KV("Legal", PyDict(<<KV("Termination", PyStr("Yes")),
                                    KV("Confidentiality", PyTrue)>>))>>) }
BadClauses ==
    { PyStr("Yes"), PyNone, PyList(<<>>),
      PyDict(<<KV("Commercial", PyStr("Yes"))>>),
      PyDict(<<KV("Commercial", Group(CommercialBoxes, PyStr("Yes"))),
               KV("Legal", PyNone)>>) }
FencedObjects ==
    { EmptyDict, PyDict(Filled(<<"Contract Type">>)),
      PyDict(Append(Filled(SchemaKeys),
                    KV("Clauses Presence",
                       PyDict(<<KV("Legal", Group(LegalBoxes, PyStr("Yes")))>>)))) }
JsonObjects ==
    FencedObjects
    \cup {PyDict(top) : top \in TopChoices}
    \cup {PyDict(Append(top, KV("Clauses Presence", c))) :
            top \in TopChoices, c \in GoodClauses \cup BadClauses}
    \cup {PyDict(<<KV("foo", PyStr("NDA"))>>)}
JsonValues ==
    JsonObjects
    \cup { PyNone, PyTrue, PyFalse, PyInt("0"), PyInt("1"), PyStr(""),
           PyStr("NDA"), PyList(<<>>), PyList(<<PyInt("1")>>) }

\* Texts the model may answer with.
Fenced(body) == Opener \o body \o Closer
Prefixes == { <<>>, <<"Here is the analysis:", "\n">> }
Suffixes ==
    { <<>>, <<"\n">>, <<"\n", "Done.">>,
      <<"\n", "Example:", "\n", Backtick, Backtick, Backtick, "\n", "x",
        "\n", Backtick, Backtick, Backtick>> }
BareTexts == {Dumps(j) : j \in JsonValues}
PaddedTexts == {<<"\n", " ">> \o Dumps(j) \o <<"\n">> : j \in FencedObjects}
FencedTexts ==
    {pre \o Fenced(Dumps(j)) \o post :
        pre \in Prefixes, j \in FencedObjects, post \in Suffixes}
MalformedTexts ==
    { <<>>, <<"Sorry, I cannot help with that.">>, <<"{">>,
      <<"{", Quote("foo"), "}">>,
      <<"[", "1", ",", "]">>,
      <<"{", "}", "{", "}">>,
      <<"[", "1", "\n", "1", "]">>,
      <<"{", "\n", " ", Quote("foo"), ":", " ", "1", "\n">>,
      Fenced(<<"{", Quote("foo"), ":">>),
      Fenced(<<>>),
      Opener \o <<"{", "}">>,
      <<Backtick, Backtick, Backtick, "\n", "{", "}">> \o Closer }
ResponseTexts == BareTexts \cup PaddedTexts \cup FencedTexts \cup MalformedTexts
ApiOutcomes ==
    {Returned(t) : t \in ResponseTexts} \cup {Raised(e) : e \in ApiErrors}
NoResponse == Raised("<no call>")

(***************************************************************************)
(* State.                                                                  *)
(***************************************************************************)
VARIABLES
    uploaded_file,   \* the file_uploader widget's value (NoFile: None)
    pc,              \* where the script stands
    file_content,    \* uploaded_file.getvalue(), NotRead before the call
    contract_text,   \* the extracted text
    prompt,          \* the prompt sent to the model (<<>>: none yet)
    response,        \* what generate_content did (NoResponse: not called)
    analysis_data,   \* what get_gemini_response returned
    ui,              \* the elements drawn in this run, in order
    trace,           \* the stages this run entered, in order
    interactions     \* the number of the current script run
vars == <<uploaded_file, pc, file_content, contract_text, prompt, response,
          analysis_data, ui, trace, interactions>>

Init ==
    /\ uploaded_file = NoFile
    /\ pc = "Idle"
    /\ file_content = NotRead
    /\ contract_text = <<>>
    /\ prompt = <<>>
    /\ response = NoResponse
    /\ analysis_data = Unbound
    /\ ui = PageHead
    /\ trace = <<>>
    /\ interactions = 1

\* The user picks a file in the uploader; the button is not pressed yet.
Upload ==
    /\ pc = "Idle"
    /\ uploaded_file = NoFile
    /\ \E f \in Files : uploaded_file' = f
    /\ UNCHANGED <<pc, file_content, contract_text, prompt, response,
                   analysis_data, ui, trace, interactions>>

\* st.button("Analyze Contract") is pressed: if uploaded_file is not None.
Click ==
    /\ pc = "Idle"
    /\ IF HasFile(uploaded_file)
       THEN /\ pc' = "Validating"
            /\ trace' = Append(trace, "Validating")
            /\ ui' = ui
       ELSE /\ pc' = "Warned"
            /\ trace' = trace
            /\ ui' = Append(ui, E("warning", "", NoFileWarningText))
    /\ UNCHANGED <<uploaded_file, file_content, contract_text, prompt,
                   response, analysis_data, interactions>>

\* The size check, and getvalue() when it passes.
CheckSize ==
    /\ pc = "Validating"
    /\ IF SizeTooBig(uploaded_file.size)
       THEN /\ ui' = Append(ui, E("error", "", SizeErrorText))
            /\ pc' = "Failed"
            /\ UNCHANGED <<file_content, trace>>
       ELSE /\ file_content' = uploaded_file.content
            /\ pc' = "Extracting"
            /\ trace' = Append(trace, "Extracting")
            /\ ui' = ui
    /\ UNCHANGED <<uploaded_file, contract_text, prompt, response,
                   analysis_data, interactions>>

\* The try block up to "if contract_text:", with its else and except.
ExtractText ==
    /\ pc = "Extracting"
    /\ LET r == Extract(uploaded_file.type, file_content)
           shown == ui \o ExtractInfo(uploaded_file.type)
       IN  IF r.exc # NoExc
           THEN /\ ui' = Append(shown, ProcessingError(r.exc))
                /\ pc' = "Failed"
                /\ UNCHANGED <<contract_text, trace>>
           ELSE /\ contract_text' = r.text
                /\ IF NonEmpty(r.text)
                   THEN /\ ui' = shown
                        /\ pc' = "Prompting"
                        /\ trace' = Append(trace, "Prompting")
                   ELSE /\ ui' = Append(shown, E("error", "", NoTextErrorText))
                        /\ pc' = "Failed"
                        /\ trace' = trace
    /\ UNCHANGED <<uploaded_file, file_content, prompt, response,
                   analysis_data, interactions>>

\* get_gemini_response is entered: the prompt is built.
BuildPrompt ==
    /\ pc = "Prompting"
    /\ prompt' = PromptFor(contract_text)
    /\ pc' = "AwaitingModel"
    /\ trace' = Append(trace, "AwaitingModel")
    /\ UNCHANGED <<uploaded_file, file_content, contract_text, response,
                   analysis_data, ui, interactions>>

\* An exception inside get_gemini_response's try block: caught there (error
\* shown, None returned) or, if the clause did not catch it, by the handler.
RaiseInGemini(exc) ==
    IF GeminiCatches(exc)
    THEN /\ ui' = ui \o GeminiError(exc)
         /\ analysis_data' = PyNone
         /\ pc' = "Presenting"
    ELSE /\ ui' = Append(ui, ProcessingError(exc))
         /\ analysis_data' = analysis_data
         /\ pc' = "Failed"

\* model.generate_content(prompt) and the read of response.text.
GenerateContent ==
    /\ pc = "AwaitingModel"
    /\ \E r \in ApiOutcomes :
        /\ response' = r
        /\ IF r.exc # NoExc
           THEN RaiseInGemini(r.exc) /\ trace' = trace
           ELSE /\ pc' = "Parsing"
                /\ trace' = Append(trace, "Parsing")
                /\ UNCHANGED <<ui, analysis_data>>
    /\ UNCHANGED <<uploaded_file, file_content, contract_text, prompt,
                   interactions>>

\* The regular expression, the choice of json_str and json.loads.
ParseResponse ==
    /\ pc = "Parsing"
    /\ LET r == Loads(json_str(response.text))
       IN  IF r.ok
           THEN /\ analysis_data' = r.val
                /\ pc' = "Presenting"
                /\ ui' = ui
           ELSE RaiseInGemini(JSONDecodeError(r.msg, json_str(response.text), r.pos))
    /\ UNCHANGED <<uploaded_file, file_content, contract_text, prompt,
                   response, trace, interactions>>

\* "if analysis_data:" with the result page, its else and the except.
Present ==
    /\ pc = "Presenting"
    /\ IF Truthy(analysis_data)
       THEN LET r == Render(analysis_data)
            IN  IF r.exc = NoExc
                THEN /\ ui' = ui \o r.events
                     /\ pc' = "Rendered"
                     /\ trace' = Append(trace, "Rendered")
                ELSE /\ ui' = Append(ui \o r.events, ProcessingError(r.exc))
                     /\ pc' = "Failed"
                     /\ trace' = trace
       ELSE /\ ui' = Append(ui, E("error", "", NotAnalyzedErrorText))
            /\ pc' = "Failed"
            /\ trace' = trace
    /\ UNCHANGED <<uploaded_file, file_content, contract_text, prompt,
                   response, analysis_data, interactions>>

\* The next interaction runs the script again from the top; only the
\* uploader keeps its value.
Rerun ==
    /\ pc \in {"Rendered", "Failed", "Warned"}
    /\ interactions < MaxInteractions
    /\ interactions' = interactions + 1
    /\ pc' = "Idle"
    /\ file_content' = NotRead
    /\ contract_text' = <<>>
    /\ prompt' = <<>>
    /\ response' = NoResponse
    /\ analysis_data' = Unbound
    /\ ui' = PageHead
    /\ trace' = <<>>
    /\ UNCHANGED uploaded_file

Next ==
    \/ Upload
    \/ Click
    \/ CheckSize
    \/ ExtractText
    \/ BuildPrompt
    \/ GenerateContent
    \/ ParseResponse
    \/ Present
    \/ Rerun

Spec == Init /\ [][Next]_vars

(***************************************************************************)
(* Vocabulary of the properties.                                           *)
(***************************************************************************)
Shown(kind, text) == \E i \in 1..Len(ui) : ui[i].kind = kind /\ ui[i].text = text
ErrorShown == \E i \in 1..Len(ui) : ui[i].kind = "error"
SuccessShown == \E i \in 1..Len(ui) : ui[i].kind = "success"
FieldShown == \E i \in 1..Len(ui) : ui[i].key # ""
\* text is the error get_gemini_response shows when json.loads(doc) raises.
IsDecodeError(text, doc) ==
    LET r == Loads(doc) IN
    ~r.ok /\ text = "An error occurred: " \o JSONDecodeError(r.msg, doc, r.pos)
IsApiError(text) == \E e \in ApiErrors : text = "An error occurred: " \o e
\* The text the code hands to json.loads: the fenced body if a fence matched,
\* otherwise the whole response.
SelectedText(text) ==
    IF \E i \in 1..Len(text) : LitAt(text, i, Opener) /\ ClosersAfter(text, i) # {}
    THEN json_match(text).group1
    ELSE text
GeminiErrorShown ==
    \E i \in 1..Len(ui) :
        /\ ui[i].kind = "error"
        /\ \/ IsApiError(ui[i].text)
           \/ IsDecodeError(ui[i].text, SelectedText(response.text))
Entered(stage) == \E i \in 1..Len(trace) : trace[i] = stage
ModelCalled == Entered("AwaitingModel")
Extracted == Entered("Extracting") /\ pc # "Extracting"
Returned_get_gemini_response ==
    response # NoResponse /\ pc \in {"Presenting", "Rendered", "Failed"}
Presented == response # NoResponse /\ pc \in {"Rendered", "Failed"}
Stages ==
    <<"Validating", "Extracting", "Prompting", "AwaitingModel", "Parsing",
      "Rendered">>
SupportedTypes == {PdfType, DocxType, TxtType}

(***************************************************************************)
(* C1.  A file of more than 200*1024*1024 bytes is rejected: the size      *)
(* error is shown, its bytes are never read, no extractor runs and the     *)
(* model is never called.  A file of exactly 200*1024*1024 bytes passes    *)
(* the size check.                                                         *)
(***************************************************************************)
C1_OversizeRejected ==
    /\ uploaded_file.size > 200 * 1024 * 1024 =>
          /\ file_content = NotRead
          /\ contract_text = <<>>
          /\ ~Entered("Extracting")
          /\ ~ModelCalled
          /\ response = NoResponse
          /\ pc \notin {"Idle", "Validating"} =>
                /\ pc = "Failed"
                /\ ui = Append(PageHead, E("error", "", SizeErrorText))
    /\ (uploaded_file.size = 200 * 1024 * 1024
        /\ pc \notin {"Idle", "Validating"}) =>
          /\ ~Shown("error", SizeErrorText)
          /\ file_content = uploaded_file.content
          /\ Entered("Extracting")
C1_Witness ==
    /\ uploaded_file.size = 200 * 1024 * 1024 + 1
    /\ pc = "Failed"
    /\ Shown("error", SizeErrorText)

(***************************************************************************)
(* C2.  Every parsed result that is a JSON object lacking any subset of    *)
(* the schema's keys (the empty object included) ends in Rendered, with    *)
(* each missing text field shown as N/A, each missing flag unchecked and   *)
(* no error message.                                                       *)
(***************************************************************************)
\* An object whose present keys hold what the schema asks for.
SchemaShaped(v) ==
    /\ IsDict(v)
    /\ HasKey(v, "Clauses Presence") =>
          LET c == Lookup(v, "Clauses Presence") IN
          /\ IsDict(c)
          /\ \A g \in {"Commercial", "Legal"} : HasKey(c, g) => IsDict(Lookup(c, g))
FlagPresent(v, g, key) ==
    /\ HasKey(v, "Clauses Presence")
    /\ HasKey(Lookup(v, "Clauses Presence"), g)
    /\ HasKey(Lookup(Lookup(v, "Clauses Presence"), g), key)
FlagValue(v, g, key) == Lookup(Lookup(Lookup(v, "Clauses Presence"), g), key)
Flags ==
    {<<"Commercial", k>> : k \in CommercialKeys}
    \cup {<<"Legal", k>> : k \in LegalKeys}
MissingShownAsDefault ==
    /\ \A i \in 1..Len(box_colors) :
          ~HasKey(analysis_data, box_colors[i][1]) =>
             Shown("markdown",
                   "<div class=\"custom-box " \o box_colors[i][2] \o "\">N/A</div>")
    /\ \A i \in 1..Len(InsightKeys) :
          ~HasKey(analysis_data, InsightKeys[i]) =>
             Shown("info", "**" \o InsightKeys[i] \o ":** N/A")
    /\ \A f \in Flags :
          ~FlagPresent(analysis_data, f[1], f[2]) =>
             /\ \E i \in 1..Len(ui) : ui[i].kind = "checkbox" /\ ui[i].key = f[2]
             /\ \A i \in 1..Len(ui) :
                   (ui[i].kind = "checkbox" /\ ui[i].key = f[2]) => ~ui[i].checked
C2_MissingFieldsDegrade ==
    (Presented /\ SchemaShaped(analysis_data)) =>
        /\ pc = "Rendered"
        /\ ~ErrorShown
        /\ MissingShownAsDefault
\* The same for the objects that have at least one key.
C2_NonEmptyObjectsDegrade ==
    (Presented /\ SchemaShaped(analysis_data) /\ analysis_data # EmptyDict) =>
        /\ pc = "Rendered"
        /\ ~ErrorShown
        /\ MissingShownAsDefault

(***************************************************************************)
(* C3.  A response that holds a json fenced block whose body is the        *)
(* serialization of an object J, with any text before and after the block  *)
(* (text with a further fence marker included), parses to exactly J.       *)
(***************************************************************************)
FencedCases ==
    {<<pre \o Fenced(Dumps(j)) \o post, j>> :
        pre \in Prefixes, j \in FencedObjects, post \in Suffixes}
C3_FencedYieldsJ ==
    \A c \in FencedCases :
        (Returned_get_gemini_response /\ response = Returned(c[1])) =>
            analysis_data = c[2]
\* The same when no closing fence marker follows the block.
HasLaterFence(post) == \E i \in 1..Len(post) : LitAt(post, i, Closer)
C3_FencedYieldsJ_NoLaterFence ==
    \A c \in {<<pre \o Fenced(Dumps(j)) \o post, j>> :
                 pre \in Prefixes, j \in FencedObjects,
                 post \in {q \in Suffixes : ~HasLaterFence(q)}} :
        (Returned_get_gemini_response /\ response = Returned(c[1])) =>
            analysis_data = c[2]

(***************************************************************************)
(* C4.  A response with no json fenced block whose whole text is valid     *)
(* JSON for J parses to exactly J, and get_gemini_response shows no error. *)
(***************************************************************************)
BareCases ==
    {<<Dumps(j), j>> : j \in JsonValues}
    \cup {<<(<<"\n", " ">> \o Dumps(j) \o <<"\n">>), j>> : j \in FencedObjects}
C4_BareYieldsJ ==
    \A c \in BareCases :
        (Returned_get_gemini_response /\ response = Returned(c[1])) =>
            /\ ~json_match(c[1]).matched
            /\ analysis_data = c[2]
            /\ ~GeminiErrorShown
C4_Witness ==
    /\ pc = "Rendered"
    /\ analysis_data = PyDict(Filled(SchemaKeys))
    /\ response = Returned(Dumps(PyDict(Filled(SchemaKeys))))

(***************************************************************************)
(* C5.  When the text selected for parsing (the fenced body if a fence     *)
(* matched, otherwise the whole response) is not valid JSON, or the model  *)
(* call raises, get_gemini_response shows an error and returns None, no    *)
(* exception reaches its caller, and no analysis field is rendered.        *)
(***************************************************************************)
ValidJsonTexts == {c[1] : c \in BareCases}
ParserFails ==
    \/ response.exc \in ApiErrors
    \/ response.exc = NoExc /\ SelectedText(response.text) \notin ValidJsonTexts
C5_MalformedHandled ==
    (Returned_get_gemini_response /\ ParserFails) =>
        /\ analysis_data = PyNone
        /\ GeminiErrorShown
        /\ \A i \in 1..Len(ui) :
              ui[i].kind = "error" =>
                 \/ ui[i].text = NotAnalyzedErrorText
                 \/ ui[i].text = "An error occurred: " \o response.exc
                 \/ IsDecodeError(ui[i].text, SelectedText(response.text))
        /\ ~SuccessShown
        /\ ~FieldShown
        /\ pc # "Rendered"
C5_Witness ==
    /\ pc = "Failed"
    /\ response = Returned(Fenced(<<"{", Quote("foo"), ":">>))
    /\ analysis_data = PyNone
    /\ Shown("error", "An error occurred: Expecting value: line 1 column 8 (char 7)")

(***************************************************************************)
(* C6.  In every interaction in which an error message is shown, no        *)
(* success message and no analysis field, info block or checkbox is        *)
(* rendered.                                                               *)
(***************************************************************************)
C6_ErrorsLeaveNoPartialResult ==
    ErrorShown => (~SuccessShown /\ ~FieldShown)

(***************************************************************************)
(* C7.  The model is called only after extraction returned a non-empty     *)
(* text.  An unsupported MIME type or an empty extraction shows the "could *)
(* not extract any text" error, an extractor that raises shows the file    *)
(* processing error, and in both cases the model is never called.          *)
(***************************************************************************)
ExtractorMessages(type) ==
    CASE type = PdfType -> {PdfReadError}
      [] type = DocxType -> {BadZipFile}
      [] type = TxtType ->
            {"'utf-8' codec can't decode byte 0xff in position 0: invalid start byte",
             "'utf-8' codec can't decode byte 0x80 in position 6: invalid start byte",
             "'utf-8' codec can't decode bytes in position 6-7: unexpected end of data",
             "'utf-8' codec can't decode byte 0xff in position 3: invalid start byte",
             "'utf-8' codec can't decode byte 0xe2 in position 9: unexpected end of data"}
Corrupt(file) ==
    \/ file.type = PdfType /\ file.content.fmt # "pdf"
    \/ file.type = DocxType /\ file.content.fmt # "docx"
    \/ file.type = TxtType /\ file.content.fmt # "txt"
YieldsNothing(file) ==
    \/ file.type \notin SupportedTypes
    \/ /\ ~Corrupt(file)
       /\ file.type = DocxType => file.content.parts = <<>>
       /\ file.type # DocxType =>
             \A i \in 1..Len(file.content.parts) :
                \/ file.content.parts[i].none
                \/ file.content.parts[i].text = <<>>
C7_ModelOnlyAfterText ==
    /\ ModelCalled =>
          /\ contract_text # <<>>
          /\ ~Corrupt(uploaded_file)
          /\ ~YieldsNothing(uploaded_file)
          /\ ~Shown("error", NoTextErrorText)
    /\ (Extracted /\ YieldsNothing(uploaded_file)) =>
          /\ pc = "Failed"
          /\ Shown("error", NoTextErrorText)
          /\ ~ModelCalled /\ response = NoResponse
    /\ (Extracted /\ uploaded_file.type \in SupportedTypes
        /\ Corrupt(uploaded_file)) =>
          /\ pc = "Failed"
          /\ \E e \in ExtractorMessages(uploaded_file.type) :
                Shown("error", "An error occurred during file processing: " \o e)
          /\ ~ModelCalled /\ response = NoResponse
C7_Witness ==
    /\ pc = "Failed"
    /\ uploaded_file.type = "image/png"
    /\ uploaded_file.content.fmt = "txt"
    /\ file_content # NotRead
    /\ Shown("error", NoTextErrorText)

(***************************************************************************)
(* C8.  extract_text_from_pdf returns the page texts joined in page order  *)
(* with no separator: page i's text sits right after the texts of the      *)
(* pages before it, a page that yields None or "" takes no room, and a PDF *)
(* whose pages are all unreadable yields the empty string.                 *)
(***************************************************************************)
Readable(page) == ~page.none /\ page.text # <<>>
WidthOf(page) == IF Readable(page) THEN Len(page.text) ELSE 0
RECURSIVE OffsetOf(_, _)
OffsetOf(pages, i) ==
    IF i = 1 THEN 0 ELSE OffsetOf(pages, i - 1) + WidthOf(pages[i - 1])
C8_PdfConcatenation ==
    (Extracted /\ uploaded_file.type = PdfType /\ file_content.fmt = "pdf") =>
        LET pages == file_content.parts
            N == Len(pages)
        IN  /\ Len(contract_text) = OffsetOf(pages, N + 1)
            /\ \A i \in 1..N :
                  Readable(pages[i]) =>
                     SubSeq(contract_text, OffsetOf(pages, i) + 1,
                            OffsetOf(pages, i + 1)) = pages[i].text
            /\ (\A i \in 1..N : ~Readable(pages[i])) => contract_text = <<>>
C8_Witness ==
    /\ Extracted
    /\ uploaded_file.type = PdfType
    /\ file_content.parts = <<Part(FALSE, <<"term", "\n">>), Part(FALSE, <<"Lease">>)>>
    /\ contract_text = <<"term", "\n", "Lease">>

(***************************************************************************)
(* C9.  A run enters the stages in the order Validating, Extracting,       *)
(* Prompting, AwaitingModel, Parsing, Rendered, each at most once (one     *)
(* model call, never retried); Rendered comes only after all of them; a    *)
(* trigger with no uploaded file enters none and shows only the warning.   *)
(***************************************************************************)
C9_StageOrder ==
    /\ Len(trace) <= Len(Stages)
    /\ \A i \in 1..Len(trace) : trace[i] = Stages[i]
    /\ pc = "Rendered" =>
          /\ trace = Stages
          /\ uploaded_file.size <= 200 * 1024 * 1024
          /\ file_content = uploaded_file.content
          /\ contract_text # <<>>
          /\ response.exc = NoExc
          /\ analysis_data \notin {Unbound, PyNone}
    /\ response # NoResponse => ModelCalled
    /\ (uploaded_file = NoFile /\ pc # "Idle") =>
          /\ pc = "Warned"
          /\ trace = <<>>
          /\ ui = Append(PageHead, E("warning", "", NoFileWarningText))
          /\ file_content = NotRead /\ response = NoResponse
C9_Witness ==
    /\ pc = "Rendered"
    /\ trace = Stages
    /\ interactions = 2

(***************************************************************************)
(* C10.  After a model call the result page is rendered if and only if the *)
(* value get_gemini_response returned is truthy: for None or an empty JSON *)
(* value no success message and no field is drawn and the "Could not       *)
(* analyze" error is shown, and for every other value the page is          *)
(* rendered.  In a rendered result each of the 8 clause checkboxes is      *)
(* checked exactly when its value is the string "Yes".                     *)
(***************************************************************************)
EmptyValues ==
    {PyNone, PyFalse, PyInt("0"), PyStr(""), PyList(<<>>), EmptyDict}
EmptyValueRejected ==
    (Presented /\ analysis_data \in EmptyValues) =>
        /\ pc = "Failed"
        /\ ~SuccessShown /\ ~FieldShown
        /\ Shown("error", NotAnalyzedErrorText)
CheckedIffYes ==
    pc = "Rendered" =>
        /\ Cardinality({i \in 1..Len(ui) : ui[i].kind = "checkbox"}) = 8
        /\ \A f \in Flags :
              \E i \in 1..Len(ui) :
                 /\ ui[i].kind = "checkbox"
                 /\ ui[i].key = f[2]
                 /\ ui[i].checked <=>
                       /\ FlagPresent(analysis_data, f[1], f[2])
                       /\ FlagValue(analysis_data, f[1], f[2]) = PyStr("Yes")
C10_RenderedIffTruthy ==
    /\ Presented => (pc = "Rendered" <=> analysis_data \notin EmptyValues)
    /\ EmptyValueRejected
    /\ CheckedIffYes

\* What does hold of C10: an empty value is rejected, every other value starts
\* the drawing of the page (the success message is shown), which completes
\* when the value has the prompt's structure, and the checkboxes of a rendered
\* page follow the "Yes" values.
C10_RenderingStartsIffTruthy ==
    /\ EmptyValueRejected
    /\ (Presented /\ analysis_data \notin EmptyValues) =>
          /\ SuccessShown
          /\ ~Shown("error", NotAnalyzedErrorText)
          /\ SchemaShaped(analysis_data) => pc = "Rendered"
    /\ CheckedIffYes

====
